---------------------------- MODULE Spec2Model ----------------------------
(***************************************************************************)
(* Model of the topology planner's decision engine:                        *)
(*   core/decision_engine.py  threshold classifier, rule engine,           *)
(*                            rule explanation, explanation text           *)
(*   core/scoring.py          weighted scoring and ranking                 *)
(*   core/models.py           UserInputs validation, the enumerations      *)
(*   utils/validators.py      range validation of the raw fields           *)
(*   app.py (main)            the Analyze and Reset handlers and the       *)
(*                            session fields they write                    *)
(*                                                                         *)
(* Scores are Python floats.  They are modelled as IEEE-754 binary64       *)
(* values (53-bit significand, round to nearest, ties to even) on top of   *)
(* an exact natural-number arithmetic, because the ranking compares sums   *)
(* whose exact values coincide while their rounded values do not.          *)
(***************************************************************************)
EXTENDS Integers, Sequences, FiniteSets, TLC

(***************************************************************************)
(* app.py, main(): the session fields and what one script run leaves.      *)
(***************************************************************************)
VARIABLES
    session_recommendation,    \* st.session_state.recommendation
    session_inputs,            \* st.session_state.inputs
    session_rule_explanation,  \* st.session_state.rule_explanation
    request,        \* the widget values of the current script run
    outcome,        \* "idle", or how the latest Analyze ended: "stored" / "error"
    shown_error,    \* the message st.error showed for the latest Analyze
    calls,          \* the engine functions the latest Analyze called, in order
    events,         \* the kinds of button events the session has seen so far
    displayed,      \* whether the latest script run rendered the results
    scoring_weights,  \* core/scoring.py: SCORING_WEIGHTS as configured
    scoring_module,   \* "unloaded", "loaded", or "AssertionError"
    last_score,       \* what the latest calculate_topology_score returned
    direct_call       \* a call of an engine function from outside main()

vars == <<session_recommendation, session_inputs, session_rule_explanation,
          request, outcome, shown_error, calls, events, displayed,
          scoring_weights, scoring_module, last_score, direct_call>>

scoring_vars == <<scoring_weights, scoring_module, last_score>>

\* what main() leaves alone: the scoring module and the direct calls
library_vars == <<scoring_vars, direct_call>>

(***************************************************************************)
(* Natural numbers of any size: little-endian sequences of 15-bit limbs    *)
(* without leading zero limbs; <<>> is zero.                               *)
(***************************************************************************)
LimbBits == 15
Base == 2^LimbBits

RECURSIVE Pow2(_)
Pow2(k) == IF k = 0 THEN 1 ELSE 2 * Pow2(k - 1)

RECURSIVE BigNorm(_)
BigNorm(a) ==
    IF a = <<>> THEN a
    ELSE IF a[Len(a)] = 0 THEN BigNorm(SubSeq(a, 1, Len(a) - 1)) ELSE a

RECURSIVE BigAddC(_, _, _)
BigAddC(a, b, c) ==
    IF a = <<>> /\ b = <<>> THEN (IF c = 0 THEN <<>> ELSE <<c>>)
    ELSE LET x == IF a = <<>> THEN 0 ELSE Head(a)
             y == IF b = <<>> THEN 0 ELSE Head(b)
             s == x + y + c
         IN  <<s % Base>> \o BigAddC(IF a = <<>> THEN a ELSE Tail(a),
                                     IF b = <<>> THEN b ELSE Tail(b),
                                     s \div Base)

BigAdd(a, b) == BigAddC(a, b, 0)

RECURSIVE BigMulLimbC(_, _, _)
BigMulLimbC(a, d, c) ==
    IF a = <<>> THEN (IF c = 0 THEN <<>> ELSE <<c>>)
    ELSE LET p == Head(a) * d + c
         IN  <<p % Base>> \o BigMulLimbC(Tail(a), d, p \div Base)

\* a * d for one limb d (0 <= d < Base)
BigMulLimb(a, d) == BigNorm(BigMulLimbC(a, d, 0))

RECURSIVE BigMul(_, _)
BigMul(a, b) ==
    IF a = <<>> \/ b = <<>> THEN <<>>
    ELSE LET r == BigMul(a, Tail(b))
         IN  BigAdd(BigMulLimb(a, Head(b)), IF r = <<>> THEN r ELSE <<0>> \o r)

RECURSIVE BigLess(_, _)
BigLess(a, b) ==
    IF Len(a) # Len(b) THEN Len(a) < Len(b)
    ELSE IF a = <<>> THEN FALSE
    ELSE IF a[Len(a)] # b[Len(b)] THEN a[Len(a)] < b[Len(b)]
    ELSE BigLess(BigNorm(SubSeq(a, 1, Len(a) - 1)),
                 BigNorm(SubSeq(b, 1, Len(b) - 1)))

\* a from a small natural number n (n < Base * Base)
BigFromNat(n) == BigNorm(<<n % Base, n \div Base>>)

RECURSIVE BitLenNat(_)
BitLenNat(n) == IF n = 0 THEN 0 ELSE 1 + BitLenNat(n \div 2)

\* number of significant bits of a
BigBitLen(a) ==
    IF a = <<>> THEN 0 ELSE LimbBits * (Len(a) - 1) + BitLenNat(a[Len(a)])

\* bit i (0 = least significant) of a
BigBit(a, i) ==
    LET k == (i \div LimbBits) + 1
    IN  IF k > Len(a) THEN 0 ELSE (a[k] \div Pow2(i % LimbBits)) % 2

\* a * 2^k
BigShiftLeft(a, k) ==
    IF a = <<>> THEN a
    ELSE [i \in 1..(k \div LimbBits) |-> 0] \o BigMulLimb(a, Pow2(k % LimbBits))

\* floor(a / 2^k)
BigShiftRight(a, k) ==
    LET q == k \div LimbBits
        r == k % LimbBits
        n == Len(a) - q
    IN  IF n <= 0 THEN <<>>
        ELSE BigNorm([i \in 1..n |->
                 (a[q + i] \div Pow2(r))
                 + (IF q + i < Len(a)
                    THEN (a[q + i + 1] % Pow2(r)) * Pow2(LimbBits - r)
                    ELSE 0)])

\* some bit below bit k of a is set
BigLowBitsSet(a, k) == \E i \in 0..(k - 1) : BigBit(a, i) = 1

RECURSIVE BigDivLimbR(_, _, _)
\* quotient limbs (most significant first consumed) of (r * Base^Len(a) + a) / d
BigDivLimbR(a, d, r) ==
    IF a = <<>> THEN [q |-> <<>>, r |-> r]
    ELSE LET cur  == r * Base + a[Len(a)]
             rest == BigDivLimbR(SubSeq(a, 1, Len(a) - 1), d, cur % d)
         IN  [q |-> rest.q \o <<cur \div d>>, r |-> rest.r]

\* [q, r] with a = q * d + r, for one limb d (0 < d < Base)
BigDivLimb(a, d) ==
    LET x == BigDivLimbR(a, d, 0) IN [q |-> BigNorm(x.q), r |-> x.r]

(***************************************************************************)
(* Python float: a binary64 value m * 2^e with 2^52 <= m < 2^53, or zero   *)
(* (m = <<>>).  Only non-negative normal values occur in the scores.       *)
(***************************************************************************)
Precision == 53

FloatZero == [m |-> <<>>, e |-> 0]

\* the binary64 nearest to M * 2^E, ties to even
FloatRound(M, E) ==
    LET L == BigBitLen(M)
    IN  IF M = <<>> THEN FloatZero
        ELSE IF L <= Precision
        THEN [m |-> BigShiftLeft(M, Precision - L), e |-> E - (Precision - L)]
        ELSE LET sh    == L - Precision
                 q     == BigShiftRight(M, sh)
                 half  == BigBit(M, sh - 1) = 1
                 low   == BigLowBitsSet(M, sh - 1)
                 up    == half /\ (low \/ BigBit(q, 0) = 1)
                 q1    == IF up THEN BigAdd(q, <<1>>) ELSE q
             IN  IF BigBitLen(q1) > Precision
                 THEN [m |-> BigShiftRight(q1, 1), e |-> E + sh + 1]
                 ELSE [m |-> q1, e |-> E + sh]

\* x * y, one float multiplication
FloatMul(x, y) == FloatRound(BigMul(x.m, y.m), x.e + y.e)

\* x + y, one float addition
FloatAdd(x, y) ==
    IF x.m = <<>> THEN y
    ELSE IF y.m = <<>> THEN x
    ELSE LET e == IF x.e < y.e THEN x.e ELSE y.e
         IN  FloatRound(BigAdd(BigShiftLeft(x.m, x.e - e),
                               BigShiftLeft(y.m, y.e - e)), e)

RECURSIVE BigSubB(_, _, _)
\* a - b - borrow for a >= b, limb by limb
BigSubB(a, b, borrow) ==
    IF a = <<>> THEN <<>>
    ELSE LET y == IF b = <<>> THEN 0 ELSE Head(b)
             d == Head(a) - y - borrow
         IN  <<d % Base>> \o BigSubB(Tail(a),
                                     IF b = <<>> THEN b ELSE Tail(b),
                                     IF d < 0 THEN 1 ELSE 0)

BigSub(a, b) == BigNorm(BigSubB(a, b, 0))

\* abs(x - y), one float subtraction
FloatAbsDiff(x, y) ==
    LET e == IF x.e < y.e THEN x.e ELSE y.e
        X == BigShiftLeft(x.m, x.e - e)
        Y == BigShiftLeft(y.m, y.e - e)
    IN  IF x.m = <<>> THEN y
        ELSE IF y.m = <<>> THEN x
        ELSE IF BigLess(X, Y) THEN FloatRound(BigSub(Y, X), e)
        ELSE FloatRound(BigSub(X, Y), e)

\* x < y
FloatLess(x, y) ==
    IF x.m = <<>> THEN y.m # <<>>
    ELSE IF y.m = <<>> THEN FALSE
    ELSE LET e == IF x.e < y.e THEN x.e ELSE y.e
         IN  BigLess(BigShiftLeft(x.m, x.e - e), BigShiftLeft(y.m, y.e - e))

\* the float a decimal literal n/d denotes (correctly rounded), d one limb
FloatLiteral(n, d) ==
    LET x == BigDivLimb(BigShiftLeft(BigFromNat(n), 64), d)
        M == BigAdd(BigShiftLeft(x.q, 1), IF x.r = 0 THEN <<>> ELSE <<1>>)
    IN  FloatRound(M, 0 - 65)


\* the integer round-half-even(x * 10^digits): the digits that
\* f"{x:.<digits>f}" prints, without the decimal point
FloatFormat(x, digits) ==
    IF x.m = <<>> THEN 0
    ELSE LET N  == BigMul(x.m, BigFromNat(10^digits))
             sh == 0 - x.e
             q  == BigShiftRight(N, sh)
             up == BigBit(N, sh - 1) = 1
                   /\ (BigLowBitsSet(N, sh - 1) \/ BigBit(q, 0) = 1)
             n  == (IF Len(q) >= 1 THEN q[1] ELSE 0)
                   + (IF Len(q) >= 2 THEN q[2] * Base ELSE 0)
         IN  IF up THEN n + 1 ELSE n

(***************************************************************************)
(* core/models.py: the enumerations.  Each is a str-valued Enum; a member  *)
(* is modelled by its value.  Iteration order is definition order.         *)
(***************************************************************************)
WorkloadTypeMembers == <<"AI Training", "Web Services", "Storage", "Mixed">>
WorkloadType == {WorkloadTypeMembers[i] : i \in DOMAIN WorkloadTypeMembers}

TopologyTypeMembers == <<"Three-Tier", "Leaf-Spine", "Fat-Tree">>
TopologyType == {TopologyTypeMembers[i] : i \in DOMAIN TopologyTypeMembers}

ScaleCategory == {"Small", "Medium", "Large"}
BudgetCategory == {"Low", "Medium", "High"}
PowerCategory == {"Low", "Medium", "High"}

\* ClassificationResult
ClassificationResult(scale, budget, power) ==
    [scale |-> scale, budget |-> budget, power |-> power]

Classifications ==
    [scale : ScaleCategory, budget : BudgetCategory, power : PowerCategory]

(***************************************************************************)
(* core/config.py: the thresholds.  Budget is in USD; power is in kW and   *)
(* is modelled in tenths of a kW, so that 49.9 and 0.1 are values.         *)
(***************************************************************************)
SCALE_THRESHOLDS ==
    [small_max_racks |-> 20, small_max_servers |-> 200,
     large_min_racks |-> 100, large_min_servers |-> 1000]

BUDGET_THRESHOLDS == [low_max |-> 100000, high_min |-> 500000]

POWER_THRESHOLDS == [low_max |-> 50, high_min |-> 200]

\* a whole number of kW in the unit power_kw is modelled in
Kw(n) == 10 * n

(***************************************************************************)
(* core/models.py: UserInputs and its __post_init__ validation.            *)
(***************************************************************************)
NoError == ""

\* the message of the ValueError __post_init__ raises, or NoError
\* a variant that also rejects a budget of zero
UserInputs_post_init_zero_budget(racks, servers, budget_usd, power_kw) ==
    IF racks <= 0 THEN "Number of racks must be positive"
    ELSE IF servers <= 0 THEN "Number of servers must be positive"
    ELSE IF budget_usd <= 0 THEN "Budget cannot be negative"
    ELSE IF power_kw <= 0 THEN "Power limit must be positive"
    ELSE NoError

UserInputs_post_init(racks, servers, budget_usd, power_kw) ==
    IF racks <= 0 THEN "Number of racks must be positive"
    ELSE IF servers <= 0 THEN "Number of servers must be positive"
    ELSE IF budget_usd < 0 THEN "Budget cannot be negative"
    ELSE IF power_kw <= 0 THEN "Power limit must be positive"
    ELSE NoError

UserInputs(racks, servers, budget_usd, power_kw, workload_type) ==
    [racks |-> racks, servers |-> servers, budget_usd |-> budget_usd,
     power_kw |-> power_kw, workload_type |-> workload_type]

(***************************************************************************)
(* core/decision_engine.py: threshold classifier                           *)
(***************************************************************************)
\* a variant that needs both the racks and the servers below the SMALL
\* thresholds
classify_scale_both_small(racks, servers) ==
    IF racks < SCALE_THRESHOLDS.small_max_racks
       /\ servers < SCALE_THRESHOLDS.small_max_servers
    THEN "Small"
    ELSE IF racks >= SCALE_THRESHOLDS.large_min_racks
            \/ servers >= SCALE_THRESHOLDS.large_min_servers
    THEN "Large"
    ELSE "Medium"

\* a variant that tests the LARGE thresholds before the SMALL ones
classify_scale_large_first(racks, servers) ==
    IF racks >= SCALE_THRESHOLDS.large_min_racks
       \/ servers >= SCALE_THRESHOLDS.large_min_servers
    THEN "Large"
    ELSE IF racks < SCALE_THRESHOLDS.small_max_racks
            \/ servers < SCALE_THRESHOLDS.small_max_servers
    THEN "Small"
    ELSE "Medium"

classify_scale(racks, servers) ==
    IF racks < SCALE_THRESHOLDS.small_max_racks
       \/ servers < SCALE_THRESHOLDS.small_max_servers
    THEN "Small"
    ELSE IF racks >= SCALE_THRESHOLDS.large_min_racks
            \/ servers >= SCALE_THRESHOLDS.large_min_servers
    THEN "Large"
    ELSE "Medium"

\* a variant in which HIGH needs a budget strictly above high_min
classify_budget_strict_high(budget_usd) ==
    IF budget_usd < BUDGET_THRESHOLDS.low_max THEN "Low"
    ELSE IF budget_usd > BUDGET_THRESHOLDS.high_min THEN "High"
    ELSE "Medium"

classify_budget(budget_usd) ==
    IF budget_usd < BUDGET_THRESHOLDS.low_max THEN "Low"
    ELSE IF budget_usd >= BUDGET_THRESHOLDS.high_min THEN "High"
    ELSE "Medium"

\* a variant in which HIGH needs a power strictly above high_min, as the
\* docstring words it
classify_power_strict_high(power_kw) ==
    IF power_kw < Kw(POWER_THRESHOLDS.low_max) THEN "Low"
    ELSE IF power_kw > Kw(POWER_THRESHOLDS.high_min) THEN "High"
    ELSE "Medium"

\* a variant that compares the power with the budget thresholds
classify_power_budget_thresholds(power_kw) ==
    IF power_kw < Kw(BUDGET_THRESHOLDS.low_max) THEN "Low"
    ELSE IF power_kw >= Kw(BUDGET_THRESHOLDS.high_min) THEN "High"
    ELSE "Medium"

classify_power(power_kw) ==
    IF power_kw < Kw(POWER_THRESHOLDS.low_max) THEN "Low"
    ELSE IF power_kw >= Kw(POWER_THRESHOLDS.high_min) THEN "High"
    ELSE "Medium"

classify_inputs(user_inputs) ==
    ClassificationResult(classify_scale(user_inputs.racks, user_inputs.servers),
                         classify_budget(user_inputs.budget_usd),
                         classify_power(user_inputs.power_kw))

(***************************************************************************)
(* core/decision_engine.py: rule engine                                    *)
(***************************************************************************)
\* a variant whose second rule does not look at the power category
suggest_topology_by_rules_power_ignored(classification) ==
    IF classification.scale = "Small"
       \/ classification.budget = "Low"
       \/ classification.power = "Low"
    THEN "Three-Tier"
    ELSE IF classification.scale = "Large"
            /\ classification.budget = "High"
    THEN "Fat-Tree"
    ELSE "Leaf-Spine"

\* a variant without the default return: the function falls off its end
suggest_topology_by_rules_no_default(classification) ==
    IF classification.scale = "Small"
       \/ classification.budget = "Low"
       \/ classification.power = "Low"
    THEN "Three-Tier"
    ELSE IF classification.scale = "Large"
            /\ classification.budget = "High"
            /\ classification.power = "High"
    THEN "Fat-Tree"
    ELSE "None"

suggest_topology_by_rules(classification) ==
    IF classification.scale = "Small"
       \/ classification.budget = "Low"
       \/ classification.power = "Low"
    THEN "Three-Tier"
    ELSE IF classification.scale = "Large"
            /\ classification.budget = "High"
            /\ classification.power = "High"
    THEN "Fat-Tree"
    ELSE "Leaf-Spine"

\* a variant that lists the three conditions of rule 1 whether they hold
\* or not
rule1_conditions_unfiltered(classification) ==
    <<"Small scale", "Low budget", "Low power">>

\* lines 202-208: the conditions of rule 1 that hold, in the order tested
rule1_conditions(classification) ==
    (IF classification.scale = "Small" THEN <<"Small scale">> ELSE <<>>)
    \o (IF classification.budget = "Low" THEN <<"Low budget">> ELSE <<>>)
    \o (IF classification.power = "Low" THEN <<"Low power">> ELSE <<>>)

\* a variant whose text for rule 3 is filed under the selected topology
why_not_others_selected(fired_rule) ==
    IF fired_rule = 1
    THEN ("Leaf-Spine" :> "Not selected because deployment has constraints (small scale, low budget, or low power) that favor simpler topology")
         @@ ("Fat-Tree" :> "Not selected because Fat-Tree requires large scale AND high budget AND high power, which is not met")
    ELSE IF fired_rule = 2
    THEN ("Three-Tier" :> "Not selected because Three-Tier is designed for smaller deployments and would be a bottleneck at this scale")
         @@ ("Leaf-Spine" :> "Not selected because deployment has sufficient resources (large scale, high budget, high power) to support Fat-Tree's superior performance")
    ELSE ("Leaf-Spine" :> "Not selected because deployment scale/budget/power exceeds Three-Tier's optimal range")
         @@ ("Fat-Tree" :> "Not selected because Fat-Tree requires all three conditions (large scale AND high budget AND high power) to be met simultaneously")

\* lines 213-216, 226-229, 235-238: the dict literal of each rule
why_not_others(fired_rule) ==
    IF fired_rule = 1
    THEN ("Leaf-Spine" :> "Not selected because deployment has constraints (small scale, low budget, or low power) that favor simpler topology")
         @@ ("Fat-Tree" :> "Not selected because Fat-Tree requires large scale AND high budget AND high power, which is not met")
    ELSE IF fired_rule = 2
    THEN ("Three-Tier" :> "Not selected because Three-Tier is designed for smaller deployments and would be a bottleneck at this scale")
         @@ ("Leaf-Spine" :> "Not selected because deployment has sufficient resources (large scale, high budget, high power) to support Fat-Tree's superior performance")
    ELSE ("Three-Tier" :> "Not selected because deployment scale/budget/power exceeds Three-Tier's optimal range")
         @@ ("Fat-Tree" :> "Not selected because Fat-Tree requires all three conditions (large scale AND high budget AND high power) to be met simultaneously")

\* a variant whose second rule fires on a LARGE scale alone
explain_rule_application_large_alone(classification) ==
    IF rule1_conditions(classification) # <<>>
    THEN [fired_rule |-> 1,
          rule_conditions |-> rule1_conditions(classification),
          why_not_others |-> why_not_others(1)]
    ELSE IF classification.scale = "Large"
    THEN [fired_rule |-> 2,
          rule_conditions |-> <<"Large scale", "High budget", "High power">>,
          why_not_others |-> why_not_others(2)]
    ELSE [fired_rule |-> 3,
          rule_conditions |->
              <<"Medium scale/budget/power or mixed conditions">>,
          why_not_others |-> why_not_others(3)]

\* the dict explain_rule_application returns; fired_rule 0 stands for None,
\* the value the dict starts with and no path leaves in place
explain_rule_application(classification) ==
    IF rule1_conditions(classification) # <<>>
    THEN [fired_rule |-> 1,
          rule_conditions |-> rule1_conditions(classification),
          why_not_others |-> why_not_others(1)]
    ELSE IF classification.scale = "Large"
            /\ classification.budget = "High"
            /\ classification.power = "High"
    THEN [fired_rule |-> 2,
          rule_conditions |-> <<"Large scale", "High budget", "High power">>,
          why_not_others |-> why_not_others(2)]
    ELSE [fired_rule |-> 3,
          rule_conditions |->
              <<"Medium scale/budget/power or mixed conditions">>,
          why_not_others |-> why_not_others(3)]

(***************************************************************************)
(* core/decision_engine.py: explanation text, as the sequence of its       *)
(* literal and interpolated fragments                                      *)
(***************************************************************************)
explanations(classification) ==
    ("Three-Tier" :>
        <<"Three-Tier topology is recommended because your deployment is classified as ",
          classification.scale, " scale with ", classification.budget,
          " budget and ", classification.power,
          " power. This topology is cost-effective for smaller deployments and provides adequate performance for traditional workloads.">>)
    @@ ("Leaf-Spine" :>
        <<"Leaf-Spine topology is recommended as it balances performance, scalability, and cost for your ",
          classification.scale, " scale deployment with ", classification.budget,
          " budget. This modern architecture offers excellent east-west traffic performance and is the industry standard for medium to large data centers.">>)
    @@ ("Fat-Tree" :>
        <<"Fat-Tree topology is recommended for your ",
          classification.scale, " scale deployment with ", classification.budget,
          " budget and ", classification.power,
          " power. This topology provides maximum scalability and performance, making it ideal for high-performance computing and large-scale AI/ML workloads.">>)

\* a variant that appends the suffix when rule_based is true
generate_explanation_suffix_inverted(topology, classification, rule_based) ==
    IF topology \notin DOMAIN explanations(classification)
    THEN <<"Topology recommended based on your inputs.">>
    ELSE IF rule_based
    THEN explanations(classification)[topology]
         \o <<" This recommendation is based on weighted scoring analysis.">>
    ELSE explanations(classification)[topology]

generate_explanation(topology, classification, rule_based) ==
    LET table == explanations(classification)
        base_explanation ==
            IF topology \in DOMAIN table THEN table[topology]
            ELSE <<"Topology recommended based on your inputs.">>
    IN  IF ~rule_based
        THEN base_explanation
             \o <<" This recommendation is based on weighted scoring analysis.">>
        ELSE base_explanation

(***************************************************************************)
(* core/topology.py                                                        *)
(***************************************************************************)
get_all_topologies == TopologyTypeMembers

(***************************************************************************)
(* core/scoring.py: weights and match matrices.  A float literal is kept   *)
(* as its numerator over 100 (0.95 is 95) and converted by Literal.        *)
(***************************************************************************)
Literal(hundredths) == FloatLiteral(hundredths, 100)

SCORING_WEIGHTS ==
    [scale_match |-> 30, budget_match |-> 25, power_match |-> 20,
     workload_suitability |-> 15, scalability_match |-> 10]

\* a weight configuration is kept in thousandths (0.30 is 300)
Thousandths(weights) == [k \in DOMAIN weights |-> 10 * weights[k]]

\* sum(SCORING_WEIGHTS.values()): from the int 0, in the dict's order
sum_weights(weights) ==
    FloatAdd(FloatAdd(FloatAdd(FloatAdd(FloatAdd(FloatZero,
        FloatLiteral(weights.scale_match, 1000)),
        FloatLiteral(weights.budget_match, 1000)),
        FloatLiteral(weights.power_match, 1000)),
        FloatLiteral(weights.workload_suitability, 1000)),
        FloatLiteral(weights.scalability_match, 1000))

\* a variant of the assertion with a tolerance of 0.01
weights_assertion_loose(weights) ==
    FloatLess(FloatAbsDiff(sum_weights(weights), FloatLiteral(1, 1)),
              FloatLiteral(1, 100))

\* lines 62-63: assert abs(sum(SCORING_WEIGHTS.values()) - 1.0) < 0.001
weights_assertion(weights) ==
    FloatLess(FloatAbsDiff(sum_weights(weights), FloatLiteral(1, 1)),
              FloatLiteral(1, 1000))

_score_scale_match(topology, scale) ==
    LET match_matrix ==
            ("Three-Tier" :> [Small |-> 100, Medium |-> 60, Large |-> 20])
            @@ ("Leaf-Spine" :> [Small |-> 50, Medium |-> 90, Large |-> 95])
            @@ ("Fat-Tree" :> [Small |-> 10, Medium |-> 40, Large |-> 100])
    IN  Literal(match_matrix[topology][scale])

_score_budget_match(topology, budget) ==
    LET match_matrix ==
            ("Three-Tier" :> [Low |-> 100, Medium |-> 70, High |-> 30])
            @@ ("Leaf-Spine" :> [Low |-> 40, Medium |-> 90, High |-> 80])
            @@ ("Fat-Tree" :> [Low |-> 10, Medium |-> 30, High |-> 100])
    IN  Literal(match_matrix[topology][budget])

_score_power_match(topology, power) ==
    LET match_matrix ==
            ("Three-Tier" :> [Low |-> 100, Medium |-> 60, High |-> 30])
            @@ ("Leaf-Spine" :> [Low |-> 50, Medium |-> 90, High |-> 80])
            @@ ("Fat-Tree" :> [Low |-> 20, Medium |-> 40, High |-> 100])
    IN  Literal(match_matrix[topology][power])

\* a variant whose Web Services and Storage columns are exchanged
_score_workload_match_columns_exchanged(topology, workload_type) ==
    LET match_matrix ==
            ("Three-Tier" :>
                (("AI Training" :> 30) @@ ("Web Services" :> 80)
                 @@ ("Storage" :> 70) @@ ("Mixed" :> 50)))
            @@ ("Leaf-Spine" :>
                (("AI Training" :> 80) @@ ("Web Services" :> 70)
                 @@ ("Storage" :> 90) @@ ("Mixed" :> 95)))
            @@ ("Fat-Tree" :>
                (("AI Training" :> 100) @@ ("Web Services" :> 50)
                 @@ ("Storage" :> 60) @@ ("Mixed" :> 70)))
    IN  Literal(match_matrix[topology][workload_type])

_score_workload_match(topology, workload_type) ==
    LET match_matrix ==
            ("Three-Tier" :>
                (("AI Training" :> 30) @@ ("Web Services" :> 70)
                 @@ ("Storage" :> 80) @@ ("Mixed" :> 50)))
            @@ ("Leaf-Spine" :>
                (("AI Training" :> 80) @@ ("Web Services" :> 90)
                 @@ ("Storage" :> 70) @@ ("Mixed" :> 95)))
            @@ ("Fat-Tree" :>
                (("AI Training" :> 100) @@ ("Web Services" :> 60)
                 @@ ("Storage" :> 50) @@ ("Mixed" :> 70)))
    IN  Literal(match_matrix[topology][workload_type])

\* a variant that reads the scale-match table for the scalability score
_score_scalability_match_scale_table(topology, scale) ==
    _score_scale_match(topology, scale)

_score_scalability_match(topology, scale) ==
    LET match_matrix ==
            ("Three-Tier" :> [Small |-> 90, Medium |-> 50, Large |-> 20])
            @@ ("Leaf-Spine" :> [Small |-> 40, Medium |-> 90, Large |-> 95])
            @@ ("Fat-Tree" :> [Small |-> 20, Medium |-> 50, Large |-> 100])
    IN  Literal(match_matrix[topology][scale])

\* f"{score:.2f} ({weight*100:.0f}%)": the two printed numbers
BreakdownEntry(score, weight) ==
    <<FloatFormat(score, 2), FloatFormat(FloatMul(weight, FloatLiteral(100, 1)), 0)>>

\* TopologyScore(topology, score, breakdown)
calculate_topology_score(topology, user_inputs, classification) ==
    LET scale_score       == _score_scale_match(topology, classification.scale)
        w1                == Literal(SCORING_WEIGHTS.scale_match)
        t1                == FloatAdd(FloatZero, FloatMul(scale_score, w1))
        budget_score      == _score_budget_match(topology, classification.budget)
        w2                == Literal(SCORING_WEIGHTS.budget_match)
        t2                == FloatAdd(t1, FloatMul(budget_score, w2))
        power_score       == _score_power_match(topology, classification.power)
        w3                == Literal(SCORING_WEIGHTS.power_match)
        t3                == FloatAdd(t2, FloatMul(power_score, w3))
        workload_score    == _score_workload_match(topology, user_inputs.workload_type)
        w4                == Literal(SCORING_WEIGHTS.workload_suitability)
        t4                == FloatAdd(t3, FloatMul(workload_score, w4))
        scalability_score == _score_scalability_match(topology, classification.scale)
        w5                == Literal(SCORING_WEIGHTS.scalability_match)
        total_score       == FloatAdd(t4, FloatMul(scalability_score, w5))
    IN  [topology  |-> topology,
         score     |-> total_score,
         breakdown |->
            <<<<"Scale Match", BreakdownEntry(scale_score, w1)>>,
              <<"Budget Match", BreakdownEntry(budget_score, w2)>>,
              <<"Power Match", BreakdownEntry(power_score, w3)>>,
              <<"Workload Suitability", BreakdownEntry(workload_score, w4)>>,
              <<"Scalability Match", BreakdownEntry(scalability_score, w5)>>,
              <<"Total Score", FloatFormat(total_score, 2)>>>>]

\* lines 99-137 with the weights of a configuration: topology and total
score_with_weights(weights, topology, workload_type, classification) ==
    [topology |-> topology,
     score |->
        FloatAdd(FloatAdd(FloatAdd(FloatAdd(FloatAdd(FloatZero,
            FloatMul(_score_scale_match(topology, classification.scale),
                     FloatLiteral(weights.scale_match, 1000))),
            FloatMul(_score_budget_match(topology, classification.budget),
                     FloatLiteral(weights.budget_match, 1000))),
            FloatMul(_score_power_match(topology, classification.power),
                     FloatLiteral(weights.power_match, 1000))),
            FloatMul(_score_workload_match(topology, workload_type),
                     FloatLiteral(weights.workload_suitability, 1000))),
            FloatMul(_score_scalability_match(topology, classification.scale),
                     FloatLiteral(weights.scalability_match, 1000)))]

RECURSIVE InsertDescending(_, _)
\* x put behind every entry whose score is not less than its own
InsertDescending(sorted, x) ==
    IF sorted = <<>> THEN <<x>>
    ELSE IF FloatLess(Head(sorted).score, x.score) THEN <<x>> \o sorted
    ELSE <<Head(sorted)>> \o InsertDescending(Tail(sorted), x)

RECURSIVE SortDescending(_, _)
\* list.sort(key=score, reverse=True): stable, equal scores keep their order
SortDescending(sorted, rest) ==
    IF rest = <<>> THEN sorted
    ELSE SortDescending(InsertDescending(sorted, Head(rest)), Tail(rest))

\* calculate_topology_score tabulated: of its user_inputs argument it reads
\* workload_type alone, so each score is computed once per
\* (topology, workload type, classification).  (@@ makes TLC evaluate the
\* table once instead of at every lookup.)
TopologyScoreTable ==
    [t \in TopologyType, w \in WorkloadType, c \in Classifications |->
        calculate_topology_score(t, [workload_type |-> w], c)] @@ <<>>

\* a variant that scores with the scale of the racks alone, read from the
\* raw inputs instead of the classification
rank_topologies_scale_of_racks(user_inputs, classification) ==
    LET scores == [i \in DOMAIN get_all_topologies |->
                     TopologyScoreTable[get_all_topologies[i],
                         user_inputs.workload_type,
                         ClassificationResult(
                             classify_scale(user_inputs.racks,
                                 SCALE_THRESHOLDS.small_max_servers),
                             classification.budget,
                             classification.power)]]
    IN  SortDescending(<<>>, scores)

\* a variant that returns the scores in enumeration order, unsorted
rank_topologies_unsorted(user_inputs, classification) ==
    [i \in DOMAIN get_all_topologies |->
        TopologyScoreTable[get_all_topologies[i],
                           user_inputs.workload_type,
                           classification]]

rank_topologies(user_inputs, classification) ==
    LET scores == [i \in DOMAIN get_all_topologies |->
                     TopologyScoreTable[get_all_topologies[i],
                                        user_inputs.workload_type,
                                        classification]]
    IN  SortDescending(<<>>, scores)

(***************************************************************************)
(* app.py, main(): the Analyze and Reset handlers.                         *)
(***************************************************************************)
None == [none |-> TRUE]
\* no engine function is being called from outside main()
NoCall == [function |-> "", args |-> <<>>, returned |-> FALSE, result |-> <<>>]
\* a session key that was never assigned
Missing == [missing |-> TRUE]

\* a variant that lets the top-scored topology win
final_topology_top_score(rule_topology, scored_topology) == scored_topology

\* line 1075: final_topology = rule_topology
final_topology(rule_topology, scored_topology) == rule_topology

\* a variant with the two confidence values exchanged
confidence_exchanged(rule_topology, scored_topology) ==
    IF rule_topology = scored_topology THEN 70 ELSE 80

\* line 1076: 0.8 / 0.7, as the literal's numerator over 100
confidence(rule_topology, scored_topology) ==
    IF rule_topology = scored_topology THEN 80 ELSE 70

\* a variant that passes whether the rule engine and the ranking agree
rule_based_when_agreeing(rule_topology, scored_topology) ==
    rule_topology = scored_topology

\* line 1079: rule_based=True
rule_based(rule_topology, scored_topology) == TRUE

\* lines 1070-1095: the recommendation assembled from the rule engine's
\* topology and the ranking, and the three values the session is given
Assemble(new_inputs, classification, rule_topology, scores) ==
    [ok |-> TRUE, error |-> NoError,
     calls |-> <<"WorkloadType", "UserInputs", "classify_inputs",
                 "suggest_topology_by_rules", "rank_topologies",
                 "generate_explanation", "explain_rule_application">>,
     recommendation |->
         [topology       |-> final_topology(rule_topology, scores[1].topology),
          confidence     |-> confidence(rule_topology, scores[1].topology),
          explanation    |-> generate_explanation(
                                 final_topology(rule_topology,
                                                scores[1].topology),
                                 classification,
                                 rule_based(rule_topology,
                                            scores[1].topology)),
          scores         |-> scores,
          classification |-> classification],
     inputs |-> new_inputs,
     rule_explanation |-> explain_rule_application(classification)]

\* lines 1064-1068: the rule engine and the scoring engine, both on the
\* same classification.  _score_workload_match indexes its matrix with the
\* workload type (scoring.py line 286): a value that is no member raises
\* KeyError there, after the classifier and the rule engine have run.
Classified(new_inputs, classification) ==
    IF new_inputs.workload_type \notin WorkloadType
    THEN [ok |-> FALSE, error |-> "KeyError",
          calls |-> <<"WorkloadType", "UserInputs", "classify_inputs",
                      "suggest_topology_by_rules", "rank_topologies">>]
    ELSE Assemble(new_inputs, classification,
                  suggest_topology_by_rules(classification),
                  rank_topologies(new_inputs, classification))

\* a variant that takes the selected string as it is, without the lookup
WorkloadType_call_unchecked(value) == TRUE

\* line 1058: WorkloadType(workload_type), the member with that value;
\* FALSE when there is none and the call raises ValueError
WorkloadType_call(value) == value \in WorkloadType

\* the body of the try block: what it computes, or the exception it raises
TryAnalyze(req) ==
    IF ~WorkloadType_call(req.workload_type)
    THEN [ok |-> FALSE, error |-> "not a valid WorkloadType",
          calls |-> <<"WorkloadType">>]
    ELSE IF UserInputs_post_init(req.racks, req.servers,
                                 req.budget_usd, req.power_kw) # NoError
    THEN [ok |-> FALSE,
          error |-> UserInputs_post_init(req.racks, req.servers,
                                         req.budget_usd, req.power_kw),
          calls |-> <<"WorkloadType", "UserInputs">>]
    ELSE Classified(UserInputs(req.racks, req.servers, req.budget_usd,
                               req.power_kw, req.workload_type),
                    classify_inputs(UserInputs(req.racks, req.servers,
                                               req.budget_usd, req.power_kw,
                                               req.workload_type)))

\* a variant that stores the recommendation and the inputs and leaves the
\* rule explanation as it was
AnalyzeStored_without_rule_explanation ==
    \E r \in {TryAnalyze(request)} :
        /\ r.ok
        /\ session_recommendation' = r.recommendation
        /\ session_inputs' = r.inputs
        /\ outcome' = "stored"
        /\ shown_error' = NoError
        /\ calls' = r.calls
        /\ events' = events \cup {"Analyze stored"}
        /\ displayed' = TRUE
        /\ UNCHANGED <<session_rule_explanation, request, library_vars>>

\* a variant that keeps the classification of the recommendation already
\* stored instead of the one just computed
AnalyzeStored_keeps_classification ==
    \E r \in {TryAnalyze(request)} :
        /\ r.ok
        /\ session_recommendation' =
               IF session_recommendation = None THEN r.recommendation
               ELSE [r.recommendation EXCEPT
                        !.classification =
                            session_recommendation.classification]
        /\ session_inputs' = r.inputs
        /\ session_rule_explanation' = r.rule_explanation
        /\ outcome' = "stored"
        /\ shown_error' = NoError
        /\ calls' = r.calls
        /\ events' = events \cup {"Analyze stored"}
        /\ displayed' = TRUE
        /\ UNCHANGED <<request, library_vars>>

\* the Analyze button, every step succeeding: the three fields are stored,
\* and the run goes on to line 1102 and renders the results
AnalyzeStored ==
    \E r \in {TryAnalyze(request)} :
        /\ r.ok
        /\ session_recommendation' = r.recommendation
        /\ session_inputs' = r.inputs
        /\ session_rule_explanation' = r.rule_explanation
        /\ outcome' = "stored"
        /\ shown_error' = NoError
        /\ calls' = r.calls
        /\ events' = events \cup {"Analyze stored"}
        /\ displayed' = TRUE
        /\ UNCHANGED <<request, library_vars>>

\* a variant whose except branch also drops the stored recommendation
AnalyzeFailed_drops_recommendation ==
    \E r \in {TryAnalyze(request)} :
        /\ ~r.ok
        /\ session_recommendation' = None
        /\ outcome' = "error"
        /\ shown_error' = r.error
        /\ calls' = r.calls
        /\ events' = events \cup {"Analyze failed"}
        /\ displayed' = FALSE
        /\ UNCHANGED <<session_inputs, session_rule_explanation, request,
                       library_vars>>

\* the Analyze button, a step raising: st.error and return, which leaves
\* main() before the results section of line 1102
AnalyzeFailed ==
    \E r \in {TryAnalyze(request)} :
        /\ ~r.ok
        /\ outcome' = "error"
        /\ shown_error' = r.error
        /\ calls' = r.calls
        /\ events' = events \cup {"Analyze failed"}
        /\ displayed' = FALSE
        /\ UNCHANGED <<session_recommendation, session_inputs,
                       session_rule_explanation, request, library_vars>>

(***************************************************************************)
(* The engine behind its function-call interface: one request with raw     *)
(* values, valid or not, handed to the try block of main().                *)
(***************************************************************************)
Margin == 1

Around(t) == (t - Margin)..(t + Margin)
UpTo(t) == (t - Margin)..t

RackValues ==
    Around(0) \cup UpTo(SCALE_THRESHOLDS.small_max_racks)
              \cup UpTo(SCALE_THRESHOLDS.large_min_racks)
ServerValues ==
    Around(0) \cup UpTo(SCALE_THRESHOLDS.small_max_servers)
              \cup UpTo(SCALE_THRESHOLDS.large_min_servers)
BudgetValues ==
    Around(0) \cup UpTo(BUDGET_THRESHOLDS.low_max)
              \cup UpTo(BUDGET_THRESHOLDS.high_min)
PowerValues ==
    Around(0) \cup UpTo(Kw(POWER_THRESHOLDS.low_max))
              \cup UpTo(Kw(POWER_THRESHOLDS.high_min))
WorkloadValues == WorkloadType \cup {"Unknown"}

Requests ==
    [racks : RackValues, servers : ServerValues, budget_usd : BudgetValues,
     power_kw : PowerValues, workload_type : WorkloadValues]

EngineInit ==
    /\ session_recommendation = None
    /\ session_inputs = None
    /\ session_rule_explanation = Missing
    /\ request \in Requests
    /\ outcome = "idle"
    /\ shown_error = NoError
    /\ calls = <<>>
    /\ events = {}
    /\ displayed = FALSE
    /\ scoring_weights = Thousandths(SCORING_WEIGHTS)
    /\ scoring_module = "loaded"
    /\ last_score = None
    /\ direct_call = NoCall

EngineNext ==
    \/ outcome = "idle" /\ AnalyzeStored
    \/ outcome = "idle" /\ AnalyzeFailed

SpecEngine == EngineInit /\ [][EngineNext]_vars

(***************************************************************************)
(* A session: any number of requests, one after the other, and the Reset   *)
(* button between them.                                                    *)
(***************************************************************************)
\* a variant of the Reset button that leaves the rule explanation
ResetAll_keeps_rule_explanation ==
    /\ session_recommendation' = None
    /\ session_inputs' = None
    /\ outcome' = "reset"
    /\ shown_error' = NoError
    /\ calls' = <<>>
    /\ events' = events \cup {"Reset"}
    /\ displayed' = FALSE
    /\ UNCHANGED <<session_rule_explanation, request, library_vars>>

\* lines 945-949: the Reset button; st.rerun() runs the script again, which
\* finds no recommendation at line 1102
ResetAll ==
    /\ session_recommendation' = None
    /\ session_inputs' = None
    /\ session_rule_explanation' = None
    /\ outcome' = "reset"
    /\ shown_error' = NoError
    /\ calls' = <<>>
    /\ events' = events \cup {"Reset"}
    /\ displayed' = FALSE
    /\ UNCHANGED <<request, library_vars>>

SessionRequests ==
    [racks : {0, SCALE_THRESHOLDS.small_max_racks - 1,
              SCALE_THRESHOLDS.large_min_racks},
     servers : {SCALE_THRESHOLDS.large_min_servers},
     budget_usd : {BUDGET_THRESHOLDS.low_max - 1, BUDGET_THRESHOLDS.high_min},
     power_kw : {0, Kw(POWER_THRESHOLDS.low_max),
                 Kw(POWER_THRESHOLDS.high_min)},
     workload_type : {"AI Training", "Unknown"}]

\* lines 978-1037: other values are entered and the script runs again,
\* without a button; line 1102 renders the results if there are any
Submit ==
    /\ request' \in SessionRequests
    /\ request' # request
    /\ outcome' = "idle"
    /\ shown_error' = NoError
    /\ calls' = <<>>
    /\ displayed' = (session_recommendation # None)
    /\ UNCHANGED <<session_recommendation, session_inputs,
                   session_rule_explanation, events, library_vars>>

SessionInit ==
    /\ session_recommendation = None
    /\ session_inputs = None
    /\ session_rule_explanation = Missing
    /\ request \in SessionRequests
    /\ outcome = "idle"
    /\ shown_error = NoError
    /\ calls = <<>>
    /\ events = {}
    /\ displayed = FALSE
    /\ scoring_weights = Thousandths(SCORING_WEIGHTS)
    /\ scoring_module = "loaded"
    /\ last_score = None
    /\ direct_call = NoCall

SessionNext ==
    \/ Submit
    \/ AnalyzeStored
    \/ AnalyzeFailed
    \/ ResetAll

SpecSession == SessionInit /\ [][SessionNext]_vars

(***************************************************************************)
(* Loading core/scoring.py under a weight configuration, and scoring with  *)
(* the module once it is loaded.                                           *)
(***************************************************************************)
WeightSlack == 1

WeightsNear(w) == (w - WeightSlack)..(w + WeightSlack)

WeightConfigs ==
    [scale_match : WeightsNear(Thousandths(SCORING_WEIGHTS).scale_match),
     budget_match : WeightsNear(Thousandths(SCORING_WEIGHTS).budget_match),
     power_match : WeightsNear(Thousandths(SCORING_WEIGHTS).power_match),
     workload_suitability :
         WeightsNear(Thousandths(SCORING_WEIGHTS).workload_suitability),
     scalability_match :
         WeightsNear(Thousandths(SCORING_WEIGHTS).scalability_match)]

ScoringRequests ==
    {r \in SessionRequests :
        /\ r.racks = SCALE_THRESHOLDS.large_min_racks
        /\ r.budget_usd = BUDGET_THRESHOLDS.high_min
        /\ r.power_kw > 0
        /\ WorkloadType_call(r.workload_type)}

\* import of core.scoring: the module body runs, the assertion included
ImportScoring ==
    /\ scoring_module = "unloaded"
    /\ scoring_module' = IF weights_assertion(scoring_weights)
                         THEN "loaded" ELSE "AssertionError"
    /\ UNCHANGED <<session_recommendation, session_inputs,
                   session_rule_explanation, request, outcome, shown_error,
                   calls, events, displayed, scoring_weights, last_score,
                   direct_call>>

\* a call of calculate_topology_score, which only a loaded module offers
CallScoring ==
    /\ scoring_module = "loaded"
    /\ \E topology \in TopologyType :
           last_score' = score_with_weights(scoring_weights, topology,
                                            request.workload_type,
                                            classify_inputs(request))
    /\ calls' = <<"classify_inputs", "calculate_topology_score">>
    /\ UNCHANGED <<session_recommendation, session_inputs,
                   session_rule_explanation, request, outcome, shown_error,
                   events, displayed, scoring_weights, scoring_module,
                   direct_call>>

ScoringInit ==
    /\ session_recommendation = None
    /\ session_inputs = None
    /\ session_rule_explanation = Missing
    /\ request \in ScoringRequests
    /\ outcome = "idle"
    /\ shown_error = NoError
    /\ calls = <<>>
    /\ events = {}
    /\ displayed = FALSE
    /\ scoring_weights \in WeightConfigs
    /\ scoring_module = "unloaded"
    /\ last_score = None
    /\ direct_call = NoCall

ScoringNext ==
    \/ ImportScoring
    \/ CallScoring

SpecScoring == ScoringInit /\ [][ScoringNext]_vars

(***************************************************************************)
(* core/decision_engine.py called directly, with arguments of the          *)
(* annotated types.                                                        *)
(***************************************************************************)
GenerateExplanationCalls ==
    {[function |-> "generate_explanation",
      args |-> [topology |-> t, classification |-> c, rule_based |-> b],
      returned |-> FALSE, result |-> <<>>] :
        t \in TopologyType, c \in Classifications, b \in BOOLEAN}

\* generate_explanation(topology, classification, rule_based) returns
CallGenerateExplanation ==
    /\ direct_call.function = "generate_explanation"
    /\ ~direct_call.returned
    /\ direct_call' =
           [direct_call EXCEPT
               !.returned = TRUE,
               !.result = generate_explanation(direct_call.args.topology,
                              direct_call.args.classification,
                              direct_call.args.rule_based)]
    /\ UNCHANGED <<session_recommendation, session_inputs,
                   session_rule_explanation, request, outcome, shown_error,
                   calls, events, displayed, scoring_vars>>

DirectInit ==
    /\ session_recommendation = None
    /\ session_inputs = None
    /\ session_rule_explanation = Missing
    /\ request = None
    /\ outcome = "idle"
    /\ shown_error = NoError
    /\ calls = <<>>
    /\ events = {}
    /\ displayed = FALSE
    /\ scoring_weights = Thousandths(SCORING_WEIGHTS)
    /\ scoring_module = "loaded"
    /\ last_score = None
    /\ direct_call \in GenerateExplanationCalls

DirectNext ==
    \/ CallGenerateExplanation

SpecDirect == DirectInit /\ [][DirectNext]_vars

(***************************************************************************)
(* The lookups of core/scoring.py and core/decision_engine.py called with  *)
(* values that are no members of the enumerations.  A call ends either by  *)
(* returning a result or by raising; `raised` names the exception.         *)
(***************************************************************************)
\* the five lookup functions of scoring.py
ScoreLookups ==
    {"_score_scale_match", "_score_budget_match", "_score_power_match",
     "_score_workload_match", "_score_scalability_match"}

\* the keys of the inner dictionaries of a function's match_matrix
match_matrix_keys(function) ==
    CASE function = "_score_scale_match" -> ScaleCategory
      [] function = "_score_budget_match" -> BudgetCategory
      [] function = "_score_power_match" -> PowerCategory
      [] function = "_score_workload_match" -> WorkloadType
      [] function = "_score_scalability_match" -> ScaleCategory

\* return match_matrix[topology][key] of the function called
score_lookup(function, topology, key) ==
    CASE function = "_score_scale_match" -> _score_scale_match(topology, key)
      [] function = "_score_budget_match" -> _score_budget_match(topology, key)
      [] function = "_score_power_match" -> _score_power_match(topology, key)
      [] function = "_score_workload_match"
             -> _score_workload_match(topology, key)
      [] function = "_score_scalability_match"
             -> _score_scalability_match(topology, key)

\* match_matrix[topology][key]: subscripting a dict with a key it does not
\* hold raises KeyError
subscript_raises(function, topology, key) ==
    topology \notin TopologyType \/ key \notin match_matrix_keys(function)

\* the members of the enumerations and one value outside each
TopologyArguments == TopologyType \cup {"Ring"}
KeyArguments(function) ==
    match_matrix_keys(function)
    \cup (IF function = "_score_workload_match" THEN {"Unknown"}
          ELSE {"Huge"})

ScoreLookupCalls ==
    UNION {{[function |-> f, args |-> [topology |-> t, key |-> k],
             returned |-> FALSE, result |-> <<>>, raised |-> NoError] :
                t \in TopologyArguments, k \in KeyArguments(f)} :
           f \in ScoreLookups}

ExplanationLookupCalls ==
    {[function |-> "generate_explanation",
      args |-> [topology |-> t, classification |-> c, rule_based |-> b],
      returned |-> FALSE, result |-> <<>>, raised |-> NoError] :
        t \in TopologyArguments, c \in Classifications, b \in BOOLEAN}

\* a call of one of the _score_*_match functions ends
CallScoreLookup ==
    /\ direct_call.function \in ScoreLookups
    /\ ~direct_call.returned
    /\ direct_call' =
           IF subscript_raises(direct_call.function,
                               direct_call.args.topology, direct_call.args.key)
           THEN [direct_call EXCEPT !.returned = TRUE, !.raised = "KeyError"]
           ELSE [direct_call EXCEPT
                    !.returned = TRUE,
                    !.result = score_lookup(direct_call.function,
                                            direct_call.args.topology,
                                            direct_call.args.key)]
    /\ UNCHANGED <<session_recommendation, session_inputs,
                   session_rule_explanation, request, outcome, shown_error,
                   calls, events, displayed, scoring_vars>>

LookupInit ==
    /\ session_recommendation = None
    /\ session_inputs = None
    /\ session_rule_explanation = Missing
    /\ request = None
    /\ outcome = "idle"
    /\ shown_error = NoError
    /\ calls = <<>>
    /\ events = {}
    /\ displayed = FALSE
    /\ scoring_weights = Thousandths(SCORING_WEIGHTS)
    /\ scoring_module = "loaded"
    /\ last_score = None
    /\ direct_call \in ScoreLookupCalls \cup ExplanationLookupCalls

LookupNext ==
    \/ CallScoreLookup
    \/ CallGenerateExplanation

SpecLookup == LookupInit /\ [][LookupNext]_vars

(***************************************************************************)
(* utils/validators.py and the constructor call that follows it in main(). *)
(* The validators take any Python value.  A finite number is kept as the   *)
(* count of its halves (1.5 is 3), so that int() has a fraction to drop;   *)
(* NaN is float('nan'), Text a str that is no numeral, None is None.       *)
(***************************************************************************)
Number(halves) == [kind |-> "number", halves |-> halves]
NaN == [kind |-> "nan"]
Text == [kind |-> "text"]

\* int(value): the number truncated towards zero; ValueError for NaN and
\* for a str that is no numeral, TypeError for None
int_call(value) ==
    IF value = None THEN [raised |-> "TypeError", value |-> 0]
    ELSE IF value.kind # "number" THEN [raised |-> "ValueError", value |-> 0]
    ELSE [raised |-> NoError,
          value |-> IF value.halves >= 0 THEN value.halves \div 2
                    ELSE 0 - ((0 - value.halves) \div 2)]

\* float(value): the same number, NaN for NaN; ValueError for a str that is
\* no numeral, TypeError for None
float_call(value) ==
    IF value = None THEN [raised |-> "TypeError", value |-> NaN]
    ELSE IF value.kind = "text" THEN [raised |-> "ValueError", value |-> NaN]
    ELSE [raised |-> NoError, value |-> value]

\* x < n, x <= n and x > n for a float x and an int n: every comparison
\* with NaN is false
float_lt(x, n) == x.kind = "number" /\ x.halves < 2 * n
float_le(x, n) == x.kind = "number" /\ x.halves <= 2 * n
float_gt(x, n) == x.kind = "number" /\ x.halves > 2 * n

\* (is_valid, error_msg); the error_msg None of a valid input is NoError
Valid == [is_valid |-> TRUE, error_msg |-> NoError]
Invalid(error_msg) == [is_valid |-> FALSE, error_msg |-> error_msg]

validate_racks(racks) ==
    IF racks = None THEN Invalid("Number of racks is required")
    ELSE IF int_call(racks).raised # NoError
    THEN Invalid("Number of racks must be a valid integer")
    ELSE IF int_call(racks).value <= 0
    THEN Invalid("Number of racks must be positive")
    ELSE IF int_call(racks).value > 10000
    THEN Invalid("Number of racks seems unreasonably high (> 10,000)")
    ELSE Valid

validate_servers(servers) ==
    IF servers = None THEN Invalid("Number of servers is required")
    ELSE IF int_call(servers).raised # NoError
    THEN Invalid("Number of servers must be a valid integer")
    ELSE IF int_call(servers).value <= 0
    THEN Invalid("Number of servers must be positive")
    ELSE IF int_call(servers).value > 1000000
    THEN Invalid("Number of servers seems unreasonably high (> 1,000,000)")
    ELSE Valid

validate_budget(budget) ==
    IF budget = None THEN Invalid("Budget is required")
    ELSE IF float_call(budget).raised # NoError
    THEN Invalid("Budget must be a valid number")
    ELSE IF float_lt(float_call(budget).value, 0)
    THEN Invalid("Budget cannot be negative")
    ELSE IF float_gt(float_call(budget).value, 1000000000)
    THEN Invalid("Budget seems unreasonably high (> $1B)")
    ELSE Valid

validate_power(power) ==
    IF power = None THEN Invalid("Power limit is required")
    ELSE IF float_call(power).raised # NoError
    THEN Invalid("Power limit must be a valid number")
    ELSE IF float_le(float_call(power).value, 0)
    THEN Invalid("Power limit must be positive")
    ELSE IF float_gt(float_call(power).value, 100000)
    THEN Invalid("Power limit seems unreasonably high (> 100 MW)")
    ELSE Valid

\* the first of the four results that is not valid, or valid
validate_all_inputs(racks, servers, budget, power) ==
    IF ~validate_racks(racks).is_valid THEN validate_racks(racks)
    ELSE IF ~validate_servers(servers).is_valid THEN validate_servers(servers)
    ELSE IF ~validate_budget(budget).is_valid THEN validate_budget(budget)
    ELSE IF ~validate_power(power).is_valid THEN validate_power(power)
    ELSE Valid

\* models.py lines 67-76 on an int racks and servers and a float budget and
\* power, either of which may be NaN
UserInputs_post_init_float(racks, servers, budget_usd, power_kw) ==
    IF racks <= 0 THEN "Number of racks must be positive"
    ELSE IF servers <= 0 THEN "Number of servers must be positive"
    ELSE IF float_lt(budget_usd, 0) THEN "Budget cannot be negative"
    ELSE IF float_le(power_kw, 0) THEN "Power limit must be positive"
    ELSE NoError

\* app.py lines 1053-1057: UserInputs(racks=int(racks), servers=int(servers),
\* budget_usd=float(budget_usd), power_kw=float(power_kw), ...): the
\* exception of a conversion, or else of __post_init__, or NoError
UserInputs_call(racks, servers, budget, power) ==
    IF int_call(racks).raised # NoError THEN int_call(racks).raised
    ELSE IF int_call(servers).raised # NoError THEN int_call(servers).raised
    ELSE IF float_call(budget).raised # NoError THEN float_call(budget).raised
    ELSE IF float_call(power).raised # NoError THEN float_call(power).raised
    ELSE UserInputs_post_init_float(int_call(racks).value,
                                    int_call(servers).value,
                                    float_call(budget).value,
                                    float_call(power).value)

\* values on both sides of zero, of one and of the upper limit, and the
\* values that are no numbers
ValuesAround(limit) ==
    {None, NaN, Text}
    \cup {Number(h) : h \in {0 - 2, 0, 1, 2, 3,
                             2 * limit, 2 * limit + 1, 2 * limit + 2}}

ValidationCalls ==
    {[function |-> "validate_all_inputs",
      args |-> [racks |-> r, servers |-> s, budget |-> b, power |-> p],
      returned |-> FALSE, result |-> <<>>, raised |-> NoError] :
        r \in ValuesAround(10000), s \in ValuesAround(1000000),
        b \in ValuesAround(1000000000), p \in ValuesAround(100000)}

\* validate_all_inputs(racks, servers, budget_usd, power_kw) returns
CallValidateAllInputs ==
    /\ direct_call.function = "validate_all_inputs"
    /\ ~direct_call.returned
    /\ direct_call' =
           [direct_call EXCEPT
               !.returned = TRUE,
               !.result = validate_all_inputs(direct_call.args.racks,
                              direct_call.args.servers,
                              direct_call.args.budget,
                              direct_call.args.power)]
    /\ UNCHANGED <<session_recommendation, session_inputs,
                   session_rule_explanation, request, outcome, shown_error,
                   calls, events, displayed, scoring_vars>>

\* lines 1043-1059: past the validation gate, the constructor is called
\* with the converted values
ConstructUserInputs ==
    /\ direct_call.function = "validate_all_inputs"
    /\ direct_call.returned
    /\ direct_call.result.is_valid
    /\ direct_call' =
           [function |-> "UserInputs", args |-> direct_call.args,
            returned |-> TRUE, result |-> <<>>,
            raised |-> UserInputs_call(direct_call.args.racks,
                                       direct_call.args.servers,
                                       direct_call.args.budget,
                                       direct_call.args.power)]
    /\ UNCHANGED <<session_recommendation, session_inputs,
                   session_rule_explanation, request, outcome, shown_error,
                   calls, events, displayed, scoring_vars>>

ValidationInit ==
    /\ session_recommendation = None
    /\ session_inputs = None
    /\ session_rule_explanation = Missing
    /\ request = None
    /\ outcome = "idle"
    /\ shown_error = NoError
    /\ calls = <<>>
    /\ events = {}
    /\ displayed = FALSE
    /\ scoring_weights = Thousandths(SCORING_WEIGHTS)
    /\ scoring_module = "loaded"
    /\ last_score = None
    /\ direct_call \in ValidationCalls

ValidationNext ==
    \/ CallValidateAllInputs
    \/ ConstructUserInputs

SpecValidation == ValidationInit /\ [][ValidationNext]_vars

(***************************************************************************)
(* The worked examples of the specification and the inputs between them,   *)
(* each analysed once.                                                     *)
(***************************************************************************)
ExampleRequests ==
    [racks : {19, 50, 150},
     servers : {500, 600, 5000},
     budget_usd : {250000, 300000, 600000},
     power_kw : {Kw(80), Kw(100), Kw(250)},
     workload_type : {"AI Training", "Web Services", "Mixed"}]

ExamplesInit ==
    /\ session_recommendation = None
    /\ session_inputs = None
    /\ session_rule_explanation = Missing
    /\ request \in ExampleRequests
    /\ outcome = "idle"
    /\ shown_error = NoError
    /\ calls = <<>>
    /\ events = {}
    /\ displayed = FALSE
    /\ scoring_weights = Thousandths(SCORING_WEIGHTS)
    /\ scoring_module = "loaded"
    /\ last_score = None
    /\ direct_call = NoCall

ExamplesNext ==
    \/ outcome = "idle" /\ AnalyzeStored

SpecExamples == ExamplesInit /\ [][ExamplesNext]_vars

(***************************************************************************)
(* What the specification says, for the claims below.                      *)
(***************************************************************************)
Stored == outcome = "stored"

\* section 4.3 of the specification: the five lookup tables, in hundredths
SpecScaleFit ==
    ("Three-Tier" :> [Small |-> 100, Medium |-> 60, Large |-> 20])
    @@ ("Leaf-Spine" :> [Small |-> 50, Medium |-> 90, Large |-> 95])
    @@ ("Fat-Tree" :> [Small |-> 10, Medium |-> 40, Large |-> 100])
SpecBudgetFit ==
    ("Three-Tier" :> [Low |-> 100, Medium |-> 70, High |-> 30])
    @@ ("Leaf-Spine" :> [Low |-> 40, Medium |-> 90, High |-> 80])
    @@ ("Fat-Tree" :> [Low |-> 10, Medium |-> 30, High |-> 100])
SpecPowerFit ==
    ("Three-Tier" :> [Low |-> 100, Medium |-> 60, High |-> 30])
    @@ ("Leaf-Spine" :> [Low |-> 50, Medium |-> 90, High |-> 80])
    @@ ("Fat-Tree" :> [Low |-> 20, Medium |-> 40, High |-> 100])
SpecWorkloadFit ==
    ("Three-Tier" :> (("AI Training" :> 30) @@ ("Web Services" :> 70)
                      @@ ("Storage" :> 80) @@ ("Mixed" :> 50)))
    @@ ("Leaf-Spine" :> (("AI Training" :> 80) @@ ("Web Services" :> 90)
                         @@ ("Storage" :> 70) @@ ("Mixed" :> 95)))
    @@ ("Fat-Tree" :> (("AI Training" :> 100) @@ ("Web Services" :> 60)
                       @@ ("Storage" :> 50) @@ ("Mixed" :> 70)))
SpecScalabilityFit ==
    ("Three-Tier" :> [Small |-> 90, Medium |-> 50, Large |-> 20])
    @@ ("Leaf-Spine" :> [Small |-> 40, Medium |-> 90, Large |-> 95])
    @@ ("Fat-Tree" :> [Small |-> 20, Medium |-> 50, Large |-> 100])

\* the weighted sum as a real number, in ten-thousandths
ExactTotal(t, c, w) ==
    30 * SpecScaleFit[t][c.scale] + 25 * SpecBudgetFit[t][c.budget]
    + 20 * SpecPowerFit[t][c.power] + 15 * SpecWorkloadFit[t][w]
    + 10 * SpecScalabilityFit[t][c.scale]

\* 0.30*ScaleFit + 0.25*BudgetFit + 0.20*PowerFit + 0.15*WorkloadFit
\* + 0.10*ScalabilityFit as Python evaluates it, left to right in floats
FloatTotal(t, c, w) ==
    FloatAdd(FloatAdd(FloatAdd(FloatAdd(
        FloatMul(Literal(30), Literal(SpecScaleFit[t][c.scale])),
        FloatMul(Literal(25), Literal(SpecBudgetFit[t][c.budget]))),
        FloatMul(Literal(20), Literal(SpecPowerFit[t][c.power]))),
        FloatMul(Literal(15), Literal(SpecWorkloadFit[t][w]))),
        FloatMul(Literal(10), Literal(SpecScalabilityFit[t][c.scale])))

FloatTotalTable ==
    [t \in TopologyType, w \in WorkloadType, c \in Classifications |->
        FloatTotal(t, c, w)] @@ <<>>

FloatOne == FloatLiteral(1, 1)

\* | x - tenThousandths / 10000 | <= 2^-50
WithinRounding(x, tenThousandths) ==
    LET A == BigMul(x.m, BigFromNat(10000))
        B == BigShiftLeft(BigFromNat(tenThousandths), 0 - x.e)
        T == BigShiftLeft(BigFromNat(10000), 0 - 50 - x.e)
    IN  /\ x.m # <<>>
        /\ ~BigLess(BigAdd(B, T), A)
        /\ ~BigLess(BigAdd(A, T), B)

\* the position of topology t in a ranking
Rank(scores, t) == CHOOSE i \in DOMAIN scores : scores[i].topology = t

Rule1(c) == c.scale = "Small" \/ c.budget = "Low" \/ c.power = "Low"
Rule2(c) == c.scale = "Large" /\ c.budget = "High" /\ c.power = "High"

(***************************************************************************)
(* Claims, checked under SpecEngine.                                       *)
(***************************************************************************)

\* C1: over the classification of the analysed inputs the rule engine
\* returns THREE_TIER if the scale is SMALL or the budget is LOW or the
\* power is LOW; otherwise FAT_TREE if the scale is LARGE and the budget is
\* HIGH and the power is HIGH; otherwise LEAF_SPINE.
C1_RuleOrder ==
    Stored =>
        session_recommendation.topology =
            IF \/ session_recommendation.classification.scale = "Small"
               \/ session_recommendation.classification.budget = "Low"
               \/ session_recommendation.classification.power = "Low"
            THEN "Three-Tier"
            ELSE IF /\ session_recommendation.classification.scale = "Large"
                    /\ session_recommendation.classification.budget = "High"
                    /\ session_recommendation.classification.power = "High"
            THEN "Fat-Tree"
            ELSE "Leaf-Spine"

\* a LARGE, HIGH-budget classification whose power is not HIGH went through
\* the rule engine and came out as LEAF_SPINE
C1_Witness ==
    /\ Stored
    /\ session_recommendation.classification.scale = "Large"
    /\ session_recommendation.classification.budget = "High"
    /\ session_recommendation.classification.power = "Medium"
    /\ session_recommendation.topology = "Leaf-Spine"

C4_OneBranchFires ==
    Stored =>
        /\ ~(Rule1(session_recommendation.classification)
             /\ Rule2(session_recommendation.classification))
        /\ session_recommendation.topology
               \in {"Three-Tier", "Leaf-Spine", "Fat-Tree"}
        /\ (session_recommendation.topology = "Three-Tier")
               <=> Rule1(session_recommendation.classification)
        /\ (session_recommendation.topology = "Fat-Tree")
               <=> Rule2(session_recommendation.classification)
        /\ (session_recommendation.topology = "Leaf-Spine")
               <=> (~Rule1(session_recommendation.classification)
                    /\ ~Rule2(session_recommendation.classification))

\* the default branch fired: all three categories MEDIUM gave LEAF_SPINE
C4_Witness ==
    /\ Stored
    /\ session_recommendation.classification =
           ClassificationResult("Medium", "Medium", "Medium")
    /\ session_recommendation.topology = "Leaf-Spine"

\* C5: the ranking holds exactly three entries, every topology exactly
\* once, each score within [0, 1], and the scores never increase along the
\* list.
C5_RankingShape ==
    Stored =>
        /\ Len(session_recommendation.scores) = 3
        /\ \A t \in {"Three-Tier", "Leaf-Spine", "Fat-Tree"} :
               Cardinality({i \in 1..Len(session_recommendation.scores) :
                   session_recommendation.scores[i].topology = t}) = 1
        /\ \A i \in 1..Len(session_recommendation.scores) :
               /\ ~FloatLess(session_recommendation.scores[i].score, FloatZero)
               /\ ~FloatLess(FloatOne, session_recommendation.scores[i].score)
        /\ \A i \in 1..(Len(session_recommendation.scores) - 1) :
               ~FloatLess(session_recommendation.scores[i].score,
                          session_recommendation.scores[i + 1].score)

\* a ranking that is the reverse of the enumeration order: the sort moved
\* every entry
C5_Witness ==
    /\ Stored
    /\ session_recommendation.scores[1].topology = "Fat-Tree"
    /\ session_recommendation.scores[2].topology = "Leaf-Spine"
    /\ session_recommendation.scores[3].topology = "Three-Tier"
    /\ FloatLess(session_recommendation.scores[2].score,
                 session_recommendation.scores[1].score)

\* C6: whenever the weighted sums of two topologies are exactly equal, the
\* one enumerated earlier (THREE_TIER, LEAF_SPINE, FAT_TREE) is ranked
\* higher; LARGE scale, HIGH budget, MEDIUM power with AI_TRAINING is such
\* a tie of LEAF_SPINE and FAT_TREE.
C6_TiesKeepEnumerationOrder ==
    Stored =>
        \A i, j \in DOMAIN TopologyTypeMembers :
            (/\ i < j
             /\ ExactTotal(TopologyTypeMembers[i],
                           session_recommendation.classification,
                           request.workload_type)
                = ExactTotal(TopologyTypeMembers[j],
                             session_recommendation.classification,
                             request.workload_type))
            => Rank(session_recommendation.scores, TopologyTypeMembers[i])
               < Rank(session_recommendation.scores, TopologyTypeMembers[j])

\* C7: every total score is 0.30*ScaleFit + 0.25*BudgetFit + 0.20*PowerFit
\* + 0.15*WorkloadFit + 0.10*ScalabilityFit over the five tables of the
\* specification: it is that expression's float value, which is the real
\* weighted sum up to float rounding, and it lies within [0, 1].
C7_WeightedSum ==
    Stored =>
        \A i \in DOMAIN session_recommendation.scores :
            /\ session_recommendation.scores[i].score =
                   FloatTotalTable[session_recommendation.scores[i].topology,
                                   request.workload_type,
                                   session_recommendation.classification]
            /\ WithinRounding(session_recommendation.scores[i].score,
                   ExactTotal(session_recommendation.scores[i].topology,
                              session_recommendation.classification,
                              request.workload_type))
            /\ ~FloatLess(session_recommendation.scores[i].score, FloatZero)
            /\ ~FloatLess(FloatOne, session_recommendation.scores[i].score)

\* scores were computed for a SMALL scale, where the scale-match and the
\* scalability tables differ for every topology
C7_Witness ==
    /\ Stored
    /\ session_recommendation.classification.scale = "Small"
    /\ request.workload_type = "Storage"
    /\ Len(session_recommendation.scores) = 3

\* C8: the confidence is 0.8 when the rule engine's topology is the first
\* of the ranking and 0.7 otherwise; it takes no other value.
C8_Confidence ==
    Stored =>
        /\ session_recommendation.confidence \in {70, 80}
        /\ (session_recommendation.confidence = 80)
               <=> (suggest_topology_by_rules(
                        session_recommendation.classification)
                    = session_recommendation.scores[1].topology)

\* the rule engine and the ranking disagreed and the confidence is 0.7
C8_Witness ==
    /\ Stored
    /\ session_recommendation.confidence = 70
    /\ suggest_topology_by_rules(session_recommendation.classification)
           # session_recommendation.scores[1].topology

C10_PostInitValidation ==
    (outcome # "idle" /\ request.workload_type \in WorkloadType) =>
        IF \/ request.racks <= 0
           \/ request.servers <= 0
           \/ request.budget_usd < 0
           \/ request.power_kw <= 0
        THEN /\ outcome = "error"
             /\ shown_error \in {"Number of racks must be positive",
                                 "Number of servers must be positive",
                                 "Budget cannot be negative",
                                 "Power limit must be positive"}
             /\ \A k \in DOMAIN calls :
                    calls[k] \notin {"classify_inputs",
                                     "suggest_topology_by_rules",
                                     "rank_topologies"}
             /\ session_recommendation = None
             /\ session_inputs = None
        ELSE /\ outcome = "stored"
             /\ session_inputs.budget_usd = request.budget_usd
             /\ \E k \in DOMAIN calls : calls[k] = "classify_inputs"

\* construction failed on a power limit of zero, every other field valid
C10_Witness ==
    /\ outcome = "error"
    /\ request.workload_type \in WorkloadType
    /\ request.racks >= 1
    /\ request.servers >= 1
    /\ request.budget_usd = 0
    /\ request.power_kw = 0
    /\ shown_error = "Power limit must be positive"

\* C11: a workload kind outside AI_TRAINING, WEB_SERVICES, STORAGE, MIXED
\* makes the construction of the input object fail with a validation
\* error: no UserInputs is built, neither the classifier nor the rule
\* engine nor the scoring engine runs, and nothing is stored; whatever is
\* stored carries a workload type of the enumeration.
C11_WorkloadOutsideEnumeration ==
    /\ (/\ outcome # "idle"
        /\ request.workload_type \notin
               {"AI Training", "Web Services", "Storage", "Mixed"})
       => /\ outcome = "error"
          /\ shown_error = "not a valid WorkloadType"
          /\ calls = <<"WorkloadType">>
          /\ session_recommendation = None
          /\ session_inputs = None
    /\ Stored => session_inputs.workload_type \in
                     {"AI Training", "Web Services", "Storage", "Mixed"}

\* an unknown workload kind with four valid numbers was turned down
C11_Witness ==
    /\ outcome = "error"
    /\ request.workload_type = "Unknown"
    /\ request.racks >= 1
    /\ request.servers >= 1
    /\ request.budget_usd >= 0
    /\ request.power_kw > 0
    /\ shown_error = "not a valid WorkloadType"

\* C12: an Analyze request fully succeeds or fully fails.  A request that
\* ends in an error leaves recommendation, inputs and rule_explanation as
\* they were; a request that stores anything has run every step and writes
\* all three fields, from the same inputs; so the session never holds a
\* recommendation without the inputs and the rule explanation it belongs to.
C12_AllOrNothing ==
    /\ [][/\ (outcome' = "error")
              => UNCHANGED <<session_recommendation, session_inputs,
                             session_rule_explanation>>
          /\ (outcome' = "stored")
              => /\ calls' = <<"WorkloadType", "UserInputs", "classify_inputs",
                               "suggest_topology_by_rules", "rank_topologies",
                               "generate_explanation",
                               "explain_rule_application">>
                 /\ session_inputs' = request
                 /\ session_recommendation' # None
                 /\ session_recommendation'.classification
                        = classify_inputs(request)
                 /\ session_rule_explanation'
                        = explain_rule_application(classify_inputs(request))
         ]_vars
    /\ [](/\ (session_recommendation = None) <=> (session_inputs = None)
          /\ (session_recommendation = None)
                 <=> (session_rule_explanation \in {None, Missing})
          /\ (session_recommendation # None)
                 => /\ session_recommendation.classification
                           = classify_inputs(session_inputs)
                    /\ session_rule_explanation = explain_rule_application(
                           classify_inputs(session_inputs)))

\* a request failed after an earlier one had succeeded, and the earlier
\* recommendation is still there
C12_Witness ==
    /\ outcome = "error"
    /\ session_recommendation # None
    /\ session_inputs # None
    /\ session_inputs # request

\* how far the decimal weights of a configuration sum from 1, in
\* thousandths
Deviation(weights) ==
    LET total == weights.scale_match + weights.budget_match
                 + weights.power_match + weights.workload_suitability
                 + weights.scalability_match
    IN  IF total < 1000 THEN 1000 - total ELSE total - 1000

\* | x - 1 | < 0.001 for a float x and the float 0.001, by exact integers
NearOne(x) ==
    LET t == FloatLiteral(1, 1000)
        e == IF x.e < t.e THEN x.e ELSE t.e
        X == BigShiftLeft(x.m, x.e - e)
        T == BigShiftLeft(t.m, t.e - e)
        One == BigShiftLeft(<<1>>, 0 - e)
    IN  BigLess(X, BigAdd(One, T)) /\ BigLess(One, BigAdd(X, T))

\* the five floats of a configuration, as integers over one power of two
WeightFloats(weights) ==
    <<FloatLiteral(weights.scale_match, 1000),
      FloatLiteral(weights.budget_match, 1000),
      FloatLiteral(weights.power_match, 1000),
      FloatLiteral(weights.workload_suitability, 1000),
      FloatLiteral(weights.scalability_match, 1000)>>

\* the sum of the five floats as a real number deviates from 1 by 0.001
\* or more: 1000 * | f1 + ... + f5 - 1 | >= 1, over the power of two 2^-60
RealSumDeviates(weights) ==
    LET f == WeightFloats(weights)
        S == BigAdd(BigAdd(BigAdd(BigAdd(
                 BigShiftLeft(f[1].m, f[1].e + 60),
                 BigShiftLeft(f[2].m, f[2].e + 60)),
                 BigShiftLeft(f[3].m, f[3].e + 60)),
                 BigShiftLeft(f[4].m, f[4].e + 60)),
                 BigShiftLeft(f[5].m, f[5].e + 60))
        One == BigShiftLeft(<<1>>, 60)
        D == IF BigLess(S, One) THEN BigSub(One, S) ELSE BigSub(S, One)
    IN  ~BigLess(BigMulLimb(D, 1000), One)

C14_FiredRuleMatchesTopology ==
    Stored =>
        /\ session_rule_explanation.fired_rule \in {1, 2, 3}
        /\ (session_rule_explanation.fired_rule = 1)
               <=> (session_recommendation.topology = "Three-Tier")
        /\ (session_rule_explanation.fired_rule = 2)
               <=> (session_recommendation.topology = "Fat-Tree")
        /\ (session_rule_explanation.fired_rule = 3)
               <=> (session_recommendation.topology = "Leaf-Spine")

\* rule 2 was reported for a FAT_TREE recommendation
C14_Witness ==
    /\ Stored
    /\ session_rule_explanation.fired_rule = 2
    /\ session_recommendation.topology = "Fat-Tree"

\* whether the condition a rule_conditions entry names holds
ConditionHolds(c, text) ==
    CASE text = "Small scale" -> c.scale = "Small"
      [] text = "Low budget" -> c.budget = "Low"
      [] text = "Low power" -> c.power = "Low"
      [] text = "Large scale" -> c.scale = "Large"
      [] text = "High budget" -> c.budget = "High"
      [] text = "High power" -> c.power = "High"
      [] text = "Medium scale/budget/power or mixed conditions" ->
             ~Rule1(c) /\ ~Rule2(c)
      [] OTHER -> FALSE

\* the conditions of a rule, in scale, budget, power order
RuleConditions(rule) ==
    CASE rule = 1 -> <<"Small scale", "Low budget", "Low power">>
      [] rule = 2 -> <<"Large scale", "High budget", "High power">>
      [] OTHER -> <<"Medium scale/budget/power or mixed conditions">>

\* s lists, in the order of all and without repetition, exactly the
\* entries of all whose condition holds of c
IsOrderedSelection(s, all, c) ==
    /\ \A i \in DOMAIN s : \E k \in DOMAIN all : all[k] = s[i]
    /\ \A i, j \in DOMAIN s :
           i < j => \E k, l \in DOMAIN all :
                        k < l /\ all[k] = s[i] /\ all[l] = s[j]
    /\ \A k \in DOMAIN all :
           ConditionHolds(c, all[k]) <=> \E i \in DOMAIN s : s[i] = all[k]

\* C15: rule_conditions holds exactly the sub-conditions of the fired rule
\* that are true of the classification, in scale, budget, power order: it
\* is never empty and names no condition that does not hold.
C15_RuleConditionsHold ==
    Stored =>
        /\ session_rule_explanation.rule_conditions # <<>>
        /\ IsOrderedSelection(session_rule_explanation.rule_conditions,
               RuleConditions(session_rule_explanation.fired_rule),
               session_recommendation.classification)
        /\ \A i \in DOMAIN session_rule_explanation.rule_conditions :
               ConditionHolds(session_recommendation.classification,
                              session_rule_explanation.rule_conditions[i])

\* rule 1 fired on scale and power while the budget is not LOW: two of the
\* three conditions are listed
C15_Witness ==
    /\ Stored
    /\ session_recommendation.classification.budget = "High"
    /\ session_rule_explanation.rule_conditions
           = <<"Small scale", "Low power">>

\* C16: why_not_others has exactly two keys, the two topologies that
\* suggest_topology_by_rules did not select, and its texts are the same
\* for every classification with the same fired rule.
C16_WhyNotOthers ==
    Stored =>
        /\ DOMAIN session_rule_explanation.why_not_others
               = {"Three-Tier", "Leaf-Spine", "Fat-Tree"}
                     \ {suggest_topology_by_rules(
                            session_recommendation.classification)}
        /\ Cardinality(DOMAIN session_rule_explanation.why_not_others) = 2
        /\ \A c \in Classifications :
               (explain_rule_application(c).fired_rule
                    = session_rule_explanation.fired_rule)
               => explain_rule_application(c).why_not_others
                      = session_rule_explanation.why_not_others

\* the default rule fired: THREE_TIER and FAT_TREE are explained away
C16_Witness ==
    /\ Stored
    /\ session_rule_explanation.fired_rule = 3
    /\ DOMAIN session_rule_explanation.why_not_others
           = {"Three-Tier", "Fat-Tree"}

GenerateExplanationReturned ==
    direct_call.function = "generate_explanation" /\ direct_call.returned

\* C17: for each of the three topologies the text of generate_explanation
\* is the topology's template with the scale, the budget and the power
\* category of the classification interpolated: its fragments are literal
\* text, scale, literal text, budget, literal text, power, literal text.
C17_AllThreeCategoriesInterpolated ==
    (GenerateExplanationReturned /\ direct_call.args.rule_based) =>
        /\ Len(direct_call.result) = 7
        /\ direct_call.result[2] = direct_call.args.classification.scale
        /\ direct_call.result[4] = direct_call.args.classification.budget
        /\ direct_call.result[6] = direct_call.args.classification.power

\* C18: generate_explanation appends the weighted-scoring suffix exactly
\* when rule_based is false; with rule_based true the result is the bare
\* template of the topology.
C18_SuffixIffNotRuleBased ==
    GenerateExplanationReturned =>
        /\ (direct_call.result[Len(direct_call.result)]
                = " This recommendation is based on weighted scoring analysis.")
               <=> ~direct_call.args.rule_based
        /\ direct_call.args.rule_based
               => direct_call.result
                      = explanations(direct_call.args.classification)
                            [direct_call.args.topology]
        /\ ~direct_call.args.rule_based
               => direct_call.result
                      = explanations(direct_call.args.classification)
                            [direct_call.args.topology]
                        \o <<" This recommendation is based on weighted scoring analysis.">>

\* a call with rule_based false returned the FAT_TREE template and the
\* suffix behind it
C18_Witness ==
    /\ GenerateExplanationReturned
    /\ ~direct_call.args.rule_based
    /\ direct_call.args.topology = "Fat-Tree"
    /\ Len(direct_call.result) = 8
    /\ direct_call.result[8]
           = " This recommendation is based on weighted scoring analysis."

\* C19: the stored explanation is the text for the rule engine's topology,
\* generated with rule_based true: it is that topology's bare template, it
\* carries no weighted-scoring suffix, and it is not the text of the
\* top-scored topology when that one differs, whatever the confidence.
C19_ExplanationOfRuleTopology ==
    Stored =>
        /\ session_recommendation.explanation
               = explanations(session_recommendation.classification)
                     [suggest_topology_by_rules(
                          session_recommendation.classification)]
        /\ \A i \in DOMAIN session_recommendation.explanation :
               session_recommendation.explanation[i]
                   # " This recommendation is based on weighted scoring analysis."
        /\ (session_recommendation.scores[1].topology
                # session_recommendation.topology)
               => session_recommendation.explanation[1]
                      # explanations(session_recommendation.classification)
                            [session_recommendation.scores[1].topology][1]

\* confidence 0.7: the ranking is led by LEAF_SPINE and the stored text is
\* the THREE_TIER one
C19_Witness ==
    /\ Stored
    /\ session_recommendation.confidence = 70
    /\ session_recommendation.scores[1].topology = "Leaf-Spine"
    /\ session_recommendation.explanation[1]
           = "Three-Tier topology is recommended because your deployment is classified as "

\* C20: racks=150, servers=5000, budget=600000, power=250 with
\* AI_TRAINING is classified (LARGE, HIGH, HIGH), rule 2 fires, FAT_TREE is
\* recommended, FAT_TREE's total score is exactly 1.0 and strictly greater
\* than the scores of THREE_TIER and LEAF_SPINE, and the confidence is 0.8.
C20_FatTreeExample ==
    (/\ Stored
     /\ request = UserInputs(150, 5000, 600000, Kw(250), "AI Training"))
    => /\ session_recommendation.classification
              = ClassificationResult("Large", "High", "High")
       /\ session_rule_explanation.fired_rule = 2
       /\ session_recommendation.topology = "Fat-Tree"
       /\ session_recommendation.scores[1].topology = "Fat-Tree"
       /\ session_recommendation.scores[1].score = FloatOne
       /\ \A i \in 2..3 :
              /\ session_recommendation.scores[i].topology
                     \in {"Three-Tier", "Leaf-Spine"}
              /\ FloatLess(session_recommendation.scores[i].score,
                           session_recommendation.scores[1].score)
       /\ session_recommendation.confidence = 80

\* the example has been analysed
C20_Witness ==
    /\ Stored
    /\ request = UserInputs(150, 5000, 600000, Kw(250), "AI Training")
    /\ session_inputs = request
    /\ Len(session_recommendation.scores) = 3

(***************************************************************************)
(* Claims, checked under SpecExamples, SpecEngine, SpecSession, SpecDirect *)
(* and SpecValidation.                                                     *)
(***************************************************************************)

\* C21: whenever racks < 20 the scale is SMALL whatever the number of
\* servers, rule 1 fires, and the recommended topology is THREE_TIER
\* whatever the budget, the power and the workload are (for instance
\* racks=19, servers=500, budget=250000, power=80, workload=MIXED).
C21_FewRacksThreeTier ==
    (Stored /\ request.racks < 20)
    => /\ session_recommendation.classification.scale = "Small"
       /\ session_rule_explanation.fired_rule = 1
       /\ session_recommendation.topology = "Three-Tier"

\* the example has been analysed: 19 racks with 500 servers, which alone
\* would be MEDIUM, came out as SMALL and THREE_TIER
C21_Witness ==
    /\ Stored
    /\ request = UserInputs(19, 500, 250000, Kw(80), "Mixed")
    /\ session_recommendation.classification.scale = "Small"
    /\ session_recommendation.topology = "Three-Tier"

\* C22: racks=50, servers=600, budget=300000, power=100 with WEB_SERVICES
\* is classified (MEDIUM, MEDIUM, MEDIUM), neither rule 1 nor rule 2 fires,
\* LEAF_SPINE is recommended, and LEAF_SPINE's total score is exactly 0.9,
\* each of its five criterion lookups being 0.9.
C22_LeafSpineExample ==
    (/\ Stored
     /\ request = UserInputs(50, 600, 300000, Kw(100), "Web Services"))
    => /\ session_recommendation.classification
              = ClassificationResult("Medium", "Medium", "Medium")
       /\ ~Rule1(session_recommendation.classification)
       /\ ~Rule2(session_recommendation.classification)
       /\ session_rule_explanation.fired_rule = 3
       /\ session_recommendation.topology = "Leaf-Spine"
       /\ \E i \in DOMAIN session_recommendation.scores :
              /\ session_recommendation.scores[i].topology = "Leaf-Spine"
              /\ session_recommendation.scores[i].score = FloatLiteral(9, 10)
              /\ \A k \in 1..5 :
                     session_recommendation.scores[i].breakdown[k][2][1]
                         = FloatFormat(FloatLiteral(9, 10), 2)
       /\ _score_scale_match("Leaf-Spine", "Medium") = FloatLiteral(9, 10)
       /\ _score_budget_match("Leaf-Spine", "Medium") = FloatLiteral(9, 10)
       /\ _score_power_match("Leaf-Spine", "Medium") = FloatLiteral(9, 10)
       /\ _score_workload_match("Leaf-Spine", request.workload_type)
              = FloatLiteral(9, 10)
       /\ _score_scalability_match("Leaf-Spine", "Medium")
              = FloatLiteral(9, 10)

\* the example has been analysed and its ranking is led by LEAF_SPINE
C22_Witness ==
    /\ Stored
    /\ request = UserInputs(50, 600, 300000, Kw(100), "Web Services")
    /\ session_inputs = request
    /\ session_recommendation.scores[1].topology = "Leaf-Spine"

\* C23: the engine is stateless and deterministic: whatever Analyze and
\* Reset events the session has seen before, the classification, the rule
\* topology, the ranking, the confidence and the explanation an analysis
\* stores are functions of the five inputs of that request alone, so two
\* analyses of the same inputs store the same results.
C23_FunctionOfRequest ==
    Stored =>
        \E c \in {classify_inputs(request)} :
            /\ session_inputs = request
            /\ session_recommendation.classification = c
            /\ session_recommendation.topology = suggest_topology_by_rules(c)
            /\ session_recommendation.scores = rank_topologies(request, c)
            /\ session_recommendation.confidence =
                   IF suggest_topology_by_rules(c)
                          = rank_topologies(request, c)[1].topology
                   THEN 80 ELSE 70
            /\ session_recommendation.explanation =
                   generate_explanation(suggest_topology_by_rules(c), c, TRUE)
            /\ session_rule_explanation = explain_rule_application(c)

\* an analysis stored its results after the session had seen a failing
\* analysis and a Reset
C23_Witness ==
    /\ Stored
    /\ events = {"Analyze stored", "Analyze failed", "Reset"}
    /\ request = UserInputs(100, 1000, 500000, Kw(200), "AI Training")
    /\ session_recommendation.topology = "Fat-Tree"

\* a call that was given a topology, a category or a workload outside the
\* tables has ended
OutsideTables ==
    /\ direct_call.returned
    /\ \/ direct_call.args.topology \notin TopologyType
       \/ /\ direct_call.function \in ScoreLookups
          /\ direct_call.args.key \notin match_matrix_keys(direct_call.function)

\* C24: a topology, a classification category or a workload value outside
\* the fixed lookup tables ends the call with an exception in every
\* component that looks it up, the scoring functions and the explanation
\* generator alike; no such call returns a default result.
C24_OutsideTablesRaises ==
    OutsideTables => direct_call.raised # NoError

C26_LowConfidenceOnlyUnderRule1 ==
    Stored =>
        /\ (session_recommendation.topology # "Three-Tier")
               => /\ session_recommendation.scores[1].topology
                         = session_recommendation.topology
                  /\ session_recommendation.confidence = 80
        /\ (session_recommendation.confidence = 70)
               => /\ session_rule_explanation.fired_rule = 1
                  /\ session_recommendation.topology = "Three-Tier"

\* other valid inputs of the same workload type: raw numbers inside every
\* category, away from the thresholds
OtherInputs(workload_type) ==
    [racks : {10, 50, 150}, servers : {300, 2000},
     budget_usd : {50000, 200000, 400000, 900000},
     power_kw : {Kw(10), Kw(60), Kw(150), Kw(300)},
     workload_type : {workload_type}]

\* C27: the ranking depends on the raw numbers only through the
\* classification: any other valid input of the same (scale, budget,
\* power) classification and the same workload type gets the same total
\* scores in the same ranked order, whatever its racks, servers, budget
\* and power are.
C27_RankingOfClassification ==
    Stored =>
        \A other \in OtherInputs(request.workload_type) :
            (classify_inputs(other) = session_recommendation.classification)
            => rank_topologies(other, classify_inputs(other))
                   = session_recommendation.scores

\* 20 racks with 1000 servers, LARGE through the servers alone, were ranked
\* as 150 racks with 2000 servers are
C27_Witness ==
    /\ Stored
    /\ request = UserInputs(20, 1000, 500000, Kw(200), "AI Training")
    /\ classify_inputs(UserInputs(150, 2000, 900000, Kw(300), "AI Training"))
           = session_recommendation.classification
    /\ session_recommendation.scores[1].topology = "Fat-Tree"

\* a session field that holds nothing: None, or never assigned
Unset(field) == field \in {None, Missing}

\* the rule of suggest_topology_by_rules that returns the topology
SelectingRule(topology) ==
    CASE topology = "Three-Tier" -> 1
      [] topology = "Fat-Tree" -> 2
      [] topology = "Leaf-Spine" -> 3

\* C28: after any sequence of successful and failing Analyze events and
\* Reset events the session fields are consistent: recommendation, inputs
\* and rule_explanation are all unset or all set, and when set they come
\* from one analysis: the recommendation's classification is the
\* classification of the stored inputs, its topology is the rule engine's
\* result for that classification, and the rule explanation's fired_rule
\* is the rule that selects that topology.
C28_SessionConsistent ==
    /\ \/ /\ Unset(session_recommendation)
          /\ Unset(session_inputs)
          /\ Unset(session_rule_explanation)
       \/ /\ ~Unset(session_recommendation)
          /\ ~Unset(session_inputs)
          /\ ~Unset(session_rule_explanation)
    /\ ~Unset(session_recommendation)
           => /\ session_recommendation.classification
                     = classify_inputs(session_inputs)
              /\ session_recommendation.topology
                     = suggest_topology_by_rules(
                           classify_inputs(session_inputs))
              /\ session_rule_explanation.fired_rule
                     = SelectingRule(session_recommendation.topology)

\* the session has seen a successful analysis, a failing one and a Reset,
\* the latest analysis failed on other inputs, and the three fields still
\* hold the FAT_TREE result of the inputs stored with it
C28_Witness ==
    /\ events = {"Analyze stored", "Analyze failed", "Reset"}
    /\ outcome = "error"
    /\ session_inputs = UserInputs(100, 1000, 500000, Kw(200), "AI Training")
    /\ session_inputs # request
    /\ session_recommendation.topology = "Fat-Tree"
    /\ session_rule_explanation.fired_rule = 2

Within(x, low, high) ==
    /\ x # None
    /\ x.kind = "number"
    /\ low <= x.halves
    /\ x.halves <= high

\* C30: every (racks, servers, budget, power) that validate_all_inputs
\* accepts satisfies the preconditions of UserInputs, so constructing
\* UserInputs from int(racks), int(servers), float(budget), float(power)
\* after a successful validation never raises; and validate_all_inputs
\* accepts exactly when 1 <= racks <= 10000, 1 <= servers <= 1000000,
\* 0 <= budget <= 1000000000 and 0 < power <= 100000.
C30_AcceptsExactlyTheRanges ==
    /\ (direct_call.function = "UserInputs" /\ direct_call.returned)
           => direct_call.raised = NoError
    /\ (direct_call.function = "validate_all_inputs" /\ direct_call.returned)
           => (direct_call.result.is_valid
               <=> /\ Within(direct_call.args.racks, 2, 2 * 10000)
                   /\ Within(direct_call.args.servers, 2, 2 * 1000000)
                   /\ Within(direct_call.args.budget, 0, 2 * 1000000000)
                   /\ Within(direct_call.args.power, 1, 2 * 100000))

=============================================================================
